---------------------------- MODULE Spec2Model ----------------------------
(***************************************************************************)
(* gracenote-xmltv.py: fetch TV listings from the Gracenote grid API in    *)
(* three-hour windows, keep the allow-listed channels, and build an XMLTV  *)
(* tree (channel elements, then programme elements).                       *)
(*                                                                         *)
(* Conventions of the model                                                *)
(*  - A Python dict is a record whose fields are Missing (key absent),     *)
(*    Null (key present, value None) or Val(x).                            *)
(*  - Strings the code inspects character by character (timestamps,        *)
(*    titles, glob patterns) are sequences of one-character strings.       *)
(*    Strings the code only compares or copies are TLA+ strings.           *)
(*  - An f-string of integers joined by "." is the tuple of the integers.  *)
(*  - An ElementTree element is [tag, attrib, children] (+ text).          *)
(*  - progress print() calls are not state and are left out; the           *)
(*    "Missing argument" diagnostics are kept in diag.                     *)
(***************************************************************************)
EXTENDS Integers, Sequences, FiniteSets, TLC

VARIABLES
    pc,              \* position of the single thread of control
    argv,            \* the command line the process was started with
    args,            \* argparse Namespace (module global, line 19)
    diag,            \* diagnostics printed by the argument checks
    force_series,    \* module global, lines 43-46
    requests,        \* every requests.get issued so far (params of each)
    now_hour,        \* fetch_listings: datetime.now().hour as read at line 119
    nearest,         \* fetch_listings local
    hour,            \* fetch_listings: next value of the loop variable
    res,             \* fetch_listings: last response
    listings,        \* fetch_listings local
    grid,            \* main local: the list fetch_listings returned
    tv,              \* main local: children of the root <tv> element
    added_channels,  \* main local: set of channelId already emitted
    ci,              \* main: index of the channel block a loop is at
    ei,              \* main: index of the event the inner loop is at
    written          \* content of the output file (<<>> wrapped) once written

vars == <<pc, argv, args, diag, force_series, requests, now_hour, nearest,
          hour, res, listings, grid, tv, added_channels, ci, ei, written>>

---------------------------------------------------------------------------
(* Bounds of the model *)

MaxBlocks == 2     \* channel blocks the upstream returns over a whole run
MaxWindows == 2    \* whole program: windows left in the day when it starts
MaxDays == 1       \* fetch_listings alone: largest --days
MaxEvents == 1     \* mapping alone: events per channel block

---------------------------------------------------------------------------
(* Python dict values *)

Missing == [state |-> "missing"]
Null == [state |-> "null"]
Val(x) == [state |-> "value", value |-> x]

\* key in d
Has(field) == field.state # "missing"
\* d.get(key) is None
IsNone(field) == field.state # "value"
\* d.get(key, default)
Get(field, default) == IF Has(field) THEN field ELSE default

---------------------------------------------------------------------------
(* Module globals *)

allowed_channels == {"CIIIDT", "CKCODT", "CICADT", "CITYDT"}

P_News == <<"*", "N", "e", "w", "s", "*">>
P_Morning == <<"C", "T", "V", " ", "Y", "o", "u", "r", " ", "M", "o", "r", "n", "i", "n", "g">>
ConfiguredForceSeries == <<P_News, P_Morning>>

NoTitle == <<"N", "o", " ", "T", "i", "t", "l", "e">>

---------------------------------------------------------------------------
(* datetime.strptime(s, "%Y-%m-%dT%H:%M:%SZ") and strftime               *)

Digits == <<"0", "1", "2", "3", "4", "5", "6", "7", "8", "9">>
IsDigit(c) == \E i \in 1..10 : Digits[i] = c
DigitVal(c) == (CHOOSE i \in 1..10 : Digits[i] = c) - 1
Num2(s, i) == 10 * DigitVal(s[i]) + DigitVal(s[i + 1])
Pad2(n) == <<Digits[(n \div 10) + 1], Digits[(n % 10) + 1]>>
Pad4(n) == Pad2(n \div 100) \o Pad2(n % 100)

IsLeap(y) == (y % 4 = 0 /\ y % 100 # 0) \/ y % 400 = 0
DaysInMonth(y, m) ==
    IF m = 2 THEN (IF IsLeap(y) THEN 29 ELSE 28)
    ELSE IF m \in {4, 6, 9, 11} THEN 30 ELSE 31

\* The zero-padded shape of the format.  strptime also takes one-digit
\* fields ("2025-1-1T5:0:0Z"); the timestamps of the model are either
\* zero-padded or rejected by both.
Shaped(s) ==
    /\ Len(s) = 20
    /\ s[5] = "-" /\ s[8] = "-" /\ s[11] = "T"
    /\ s[14] = ":" /\ s[17] = ":" /\ s[20] = "Z"
    /\ \A i \in {1, 2, 3, 4, 6, 7, 9, 10, 12, 13, 15, 16, 18, 19} : IsDigit(s[i])

\* [ok |-> FALSE] stands for the ValueError strptime raises.
strptime(s) ==
    IF ~Shaped(s) THEN [ok |-> FALSE]
    ELSE LET y == 100 * Num2(s, 1) + Num2(s, 3)
             m == Num2(s, 6)
             d == Num2(s, 9)
             H == Num2(s, 12)
             M == Num2(s, 15)
             S == Num2(s, 18)
         IN IF /\ y >= 1 /\ m \in 1..12 /\ d >= 1
               /\ H <= 23 /\ M <= 59 /\ S <= 59
               /\ d <= DaysInMonth(y, m)
            THEN [ok |-> TRUE, year |-> y, month |-> m, day |-> d,
                  hour |-> H, minute |-> M, second |-> S]
            ELSE [ok |-> FALSE]

Unknown == <<"U", "n", "k", "n", "o", "w", "n">>

time_to_xmltv(utc_timestamp) ==
    LET t == strptime(utc_timestamp)
    IN IF t.ok
       THEN Pad4(t.year) \o Pad2(t.month) \o Pad2(t.day)
            \o Pad2(t.hour) \o Pad2(t.minute) \o Pad2(t.second)
       ELSE Unknown

\* dt.astimezone() for a host whose zone is off whole hours from UTC
\* (-23..23) at that instant.
astimezone(t, off) ==
    LET h == t.hour + off
    IN IF h < 0 THEN
            IF t.day > 1
            THEN [t EXCEPT !.hour = h + 24, !.day = t.day - 1]
            ELSE IF t.month > 1
            THEN [t EXCEPT !.hour = h + 24, !.month = t.month - 1,
                           !.day = DaysInMonth(t.year, t.month - 1)]
            ELSE [t EXCEPT !.hour = h + 24, !.year = t.year - 1,
                           !.month = 12, !.day = 31]
       ELSE IF h > 23 THEN
            IF t.day < DaysInMonth(t.year, t.month)
            THEN [t EXCEPT !.hour = h - 24, !.day = t.day + 1]
            ELSE IF t.month < 12
            THEN [t EXCEPT !.hour = h - 24, !.month = t.month + 1, !.day = 1]
            ELSE [t EXCEPT !.hour = h - 24, !.year = t.year + 1,
                           !.month = 1, !.day = 1]
       ELSE [t EXCEPT !.hour = h]

RECURSIVE DaysBefore(_, _)
DaysBefore(y, m) == IF m = 1 THEN 0 ELSE DaysBefore(y, m - 1) + DaysInMonth(y, m - 1)
tm_yday(t) == DaysBefore(t.year, t.month) + t.day

\* [raised |-> TRUE] stands for the uncaught ValueError of line 67.
generate_random_episode_num(start_time, mode, off) ==
    LET t == strptime(start_time)
    IN IF ~t.ok THEN [raised |-> TRUE]
       ELSE LET dt == astimezone(t, off)
                half_hours == (dt.hour * 2) + (IF dt.minute >= 30 THEN 1 ELSE 0)
                day_of_year == tm_yday(dt)
            IN [raised |-> FALSE,
                value |-> IF mode = "xmltv_ns"
                          THEN Val(<<dt.month - 1, dt.day - 1, half_hours, 48>>)
                          ELSE IF mode = "dd_progid"
                          THEN Val(<<dt.month, dt.day, half_hours>>)
                          ELSE IF mode = "xmltv_ns_doy"
                          THEN Val(<<day_of_year - 1, half_hours, 0>>)
                          ELSE Null]

---------------------------------------------------------------------------
(* fnmatch.fnmatch(name, pat) on POSIX (os.path.normcase is the identity): *)
(* "*" matches any run of characters, "?" one character, anything else     *)
(* itself; the whole name must match.  The patterns of the model hold no    *)
(* "[" classes.                                                             *)

RECURSIVE fnmatch(_, _)
fnmatch(name, pat) ==
    IF pat = <<>> THEN name = <<>>
    ELSE IF Head(pat) = "*"
         THEN fnmatch(name, Tail(pat))
              \/ (name # <<>> /\ fnmatch(Tail(name), pat))
         ELSE /\ name # <<>>
              /\ (Head(pat) = "?" \/ Head(pat) = Head(name))
              /\ fnmatch(Tail(name), Tail(pat))

---------------------------------------------------------------------------
(* ElementTree *)

Element(tag, attrib, text) ==
    [tag |-> tag, attrib |-> attrib, text |-> text, children |-> <<>>]
NoAttrib == [none |-> TRUE]
NoText == [state |-> "null"]

Channels(tree) == SelectSeq(tree, LAMBDA e : e.tag = "channel")
Programmes(tree) == SelectSeq(tree, LAMBDA e : e.tag = "programme")
\* prog.findall('episode-num')
EpisodeNums(prog) == SelectSeq(prog.children, LAMBDA e : e.tag = "episode-num")

---------------------------------------------------------------------------
(* add_channel(channel, tv, added_channels): the tree and the seen-set     *)
(* after the call.  channel['channelId'] is a present key in every block   *)
(* of the model.                                                           *)

\* add_channel without the seen-set check of lines 149-150
add_channel_NoSeenCheck(channel, tree, added) ==
    [tv |-> Append(tree, [Element("channel", [id |-> channel.callSign.value], NoText)
                            EXCEPT !.children =
                                <<Element("display-name", NoAttrib,
                                          Val(channel.callSign.value))>>]),
     added_channels |-> added \cup {channel.channelId.value}]

add_channel(channel, tree, added) ==
    IF channel.channelId.value \in added
    THEN [tv |-> tree, added_channels |-> added]
    ELSE LET id == Get(channel.callSign, Get(channel.channelId, Null)).value
             name == Get(channel.callSign, Val("Unknown")).value
             icon == IF Has(channel.thumbnail)
                        /\ ~IsNone(channel.thumbnail)
                        /\ channel.thumbnail.value # ""
                     THEN <<Element("icon", NoAttrib,
                                    Val(<<"src=", channel.thumbnail.value>>))>>
                     ELSE <<>>
             xmlchannel ==
                 [Element("channel", [id |-> id], NoText)
                    EXCEPT !.children =
                        <<Element("display-name", NoAttrib, Val(name))>> \o icon]
         IN [tv |-> Append(tree, xmlchannel),
             added_channels |-> added \cup {channel.channelId.value}]

---------------------------------------------------------------------------
(* add_program(event, channel_id, tv), run on a host off hours from UTC:   *)
(* the tree after the call, and whether the call raised.  The programme    *)
(* element is attached to the tree at line 164, before anything can raise; *)
(* at line 196 the right-hand side is evaluated before the episode-num     *)
(* element is created, so a raise leaves no episode-num behind.            *)

EpisodeNum(text) == Element("episode-num", [system |-> "xmltv_ns"], text)

add_program(event, channel_id, tree, off) ==
    LET program == event.program.value
        title == Get(program.title, Val(NoTitle)).value
        subtitle == IF Has(program.episodeTitle) /\ ~IsNone(program.episodeTitle)
                    THEN <<Element("sub-title", NoAttrib, program.episodeTitle)>>
                    ELSE <<>>
        desc == IF Has(program.shortDesc) /\ ~IsNone(program.shortDesc)
                THEN <<Element("desc", NoAttrib, program.shortDesc)>>
                ELSE <<>>
        real == IF /\ Has(program.season) /\ Has(program.episode)
                   /\ ~IsNone(program.season) /\ ~IsNone(program.episode)
                THEN <<EpisodeNum(Val(<<program.season.value,
                                        program.episode.value, 0>>))>>
                ELSE <<>>
        \* the patterns the loop of line 189 finds matching, in order
        matching == IF real = <<>>
                    THEN SelectSeq(force_series, LAMBDA pattern : fnmatch(title, pattern))
                    ELSE <<>>
        gen == generate_random_episode_num(event.startTime.value, "xmltv_ns_doy", off)
        raised == matching # <<>> /\ gen.raised
        synth == IF matching # <<>> /\ ~gen.raised
                 THEN [i \in 1..Len(matching) |-> EpisodeNum(gen.value)]
                 ELSE <<>>
        prog == [Element("programme",
                         [start |-> time_to_xmltv(event.startTime.value),
                          stop |-> time_to_xmltv(event.endTime.value),
                          channel |-> channel_id],
                         NoText)
                   EXCEPT !.children =
                       <<Element("title", NoAttrib, Val(title))>>
                       \o subtitle \o desc \o real \o synth]
    IN [tv |-> Append(tree, prog), raised |-> raised]

---------------------------------------------------------------------------
(* Inputs: what the upstream API, the command line and the host can hand   *)
(* the program.                                                            *)

T_EveningNews == <<"E", "v", "e", "n", "i", "n", "g", " ", "N", "e", "w", "s">>
T_Morning == <<"C", "T", "V", " ", "Y", "o", "u", "r", " ", "M", "o", "r", "n", "i", "n", "g">>
T_Movie == <<"M", "o", "v", "i", "e">>
TS_Start == <<"2", "0", "2", "5", "-", "0", "1", "-", "0", "1", "T", "0", "5", ":", "0", "0", ":", "0", "0", "Z">>
TS_NewYearsEve == <<"2", "0", "2", "4", "-", "1", "2", "-", "3", "1", "T", "2", "3", ":", "4", "5", ":", "0", "0", "Z">>
TS_Month13 == <<"2", "0", "2", "5", "-", "1", "3", "-", "0", "1", "T", "0", "5", ":", "0", "0", ":", "0", "0", "Z">>
TS_End == <<"2", "0", "2", "5", "-", "0", "1", "-", "0", "1", "T", "0", "5", ":", "3", "0", ":", "0", "0", "Z">>
TS_NoZone == <<"2", "0", "2", "5", "-", "0", "1", "-", "0", "1", " ", "0", "5", ":", "3", "0", ":", "0", "0">>
P_Evening == <<"E", "v", "e", "n", "i", "n", "g", "*">>

\* UTC offsets of the host (Toronto in winter, UTC, Berlin in winter)
HostOffsets == {0 - 5, 0, 1}

\* Force-series lists a deployment may configure; the first is the source's.
PatternLists == {ConfiguredForceSeries, <<>>, <<P_News, P_Evening>>}

\* (episodeTitle, shortDesc, season, episode) of a program record
Metadata ==
    { [episodeTitle |-> Missing, shortDesc |-> Missing, season |-> Missing, episode |-> Missing],
      [episodeTitle |-> Null, shortDesc |-> Null, season |-> Null, episode |-> Null],
      [episodeTitle |-> Val("Pilot"), shortDesc |-> Val("A description"),
       season |-> Val(3), episode |-> Val(7)],
      [episodeTitle |-> Missing, shortDesc |-> Val("A description"),
       season |-> Val(3), episode |-> Missing],
      [episodeTitle |-> Val("Pilot"), shortDesc |-> Missing,
       season |-> Val(3), episode |-> Null] }

Titles == {Missing, Val(T_EveningNews), Val(T_Morning), Val(T_Movie)}

Programs ==
    { [title |-> t, episodeTitle |-> m.episodeTitle, shortDesc |-> m.shortDesc,
       season |-> m.season, episode |-> m.episode] : t \in Titles, m \in Metadata }

\* (startTime, endTime): well-formed, or one of the two malformed
Times == { <<TS_Start, TS_End>>, <<TS_NewYearsEve, TS_End>>,
           <<TS_Month13, TS_End>>, <<TS_Start, TS_NoZone>> }

Events ==
    { [startTime |-> Val(x[1]), endTime |-> Val(x[2]), program |-> Val(p)] :
        x \in Times, p \in Programs }

\* The one event of the blocks of the whole-program specification
NewsEvent ==
    [startTime |-> Val(TS_Start), endTime |-> Val(TS_End),
     program |-> Val([title |-> Val(T_EveningNews), episodeTitle |-> Missing,
                      shortDesc |-> Missing, season |-> Missing, episode |-> Missing])]

RECURSIVE SeqsUpTo(_, _)
\* the sequences over S of length at most n
SeqsUpTo(S, n) ==
    IF n <= 0 THEN {<<>>}
    ELSE LET shorter == SeqsUpTo(S, n - 1)
         IN shorter \cup {Append(q, x) : q \in shorter, x \in S}

Block(callSign, channelId, thumbnail, events) ==
    [callSign |-> Val(callSign), channelId |-> Val(channelId),
     thumbnail |-> thumbnail, events |-> Val(events)]

\* Whole program: two allow-listed call signs and one that is not, two
\* channel identifiers (one with a thumbnail), one event each.
MainBlocks ==
    { Block(cs, ch[1], ch[2], <<NewsEvent>>) :
        cs \in {"CIIIDT", "CITYDT", "WXYZ"},
        ch \in { <<"10", Val("https://img/10.png")>>, <<"20", Missing>> } }

\* fetch_listings alone never looks inside a block
FetchBlocks == { Block("CITYDT", "10", Missing, <<>>), Block("WXYZ", "20", Missing, <<>>) }

\* Mapping alone: one block, every thumbnail shape, up to MaxEvents events
MapGrids ==
    { <<Block(cs, "10", th, ev)>> :
        cs \in {"CITYDT", "WXYZ"},
        th \in {Missing, Val(""), Val("https://img/10.png")},
        ev \in SeqsUpTo(Events, MaxEvents) }

---------------------------------------------------------------------------
(* Command line, lines 13-29 *)

Argvs ==
    { [lineup |-> l, postal |-> p, country |-> c, days |-> d] :
        l \in {Missing, Val("USA-lineupId-X")},
        p \in {Missing, Val("M5V3L9")},
        c \in {Missing, Val("USA")},
        d \in {Missing, Val(0)} }

\* parser.parse_args(): an option left out takes its default, None if it
\* has none.
parse_args(a) ==
    [lineup |-> Get(a.lineup, Val("CAN-lineupId-DEFAULT")),
     postal |-> Get(a.postal, Null),
     country |-> Get(a.country, Val("CAN")),
     days |-> Get(a.days, Val(1)),
     output |-> Val("gracenote.xml")]

NoResponse == [status_code |-> 0, json |-> Null]

\* Everything but pc, argv, args, force_series before main() has run
Fresh ==
    /\ diag = <<>>
    /\ requests = <<>>
    /\ now_hour = 0 /\ nearest = 0 /\ hour = 0
    /\ res = NoResponse
    /\ listings = <<>>
    /\ grid = <<>>
    /\ tv = <<>>
    /\ added_channels = {}
    /\ ci = 1 /\ ei = 1
    /\ written = Null

Init ==
    /\ pc = "parse"
    /\ argv \in Argvs
    /\ args = Null
    /\ force_series = ConfiguredForceSeries
    /\ Fresh

ParseArgs ==
    /\ pc = "parse"
    /\ args' = parse_args(argv)
    /\ pc' = "check"
    /\ UNCHANGED <<argv, diag, force_series, requests, now_hour, nearest, hour,
                   res, listings, grid, tv, added_channels, ci, ei, written>>

\* lines 21-29: print and sys.exit(1) on the first None, else go on to main()
CheckArgs ==
    /\ pc = "check"
    /\ IF IsNone(args.lineup)
       THEN diag' = Append(diag, "Missing argument: lineup") /\ pc' = "exit1"
       ELSE IF IsNone(args.postal)
       THEN diag' = Append(diag, "Missing argument: postal") /\ pc' = "exit1"
       ELSE IF IsNone(args.country)
       THEN diag' = Append(diag, "Missing argument: country") /\ pc' = "exit1"
       ELSE diag' = diag /\ pc' = "main"
    /\ UNCHANGED <<argv, args, force_series, requests, now_hour, nearest, hour,
                   res, listings, grid, tv, added_channels, ci, ei, written>>

\* lines 201-209: the empty tree and seen-set, then the call of fetch_listings
MainStart ==
    /\ pc = "main"
    /\ tv' = <<>>
    /\ added_channels' = {}
    /\ pc' = "fetch_start"
    /\ UNCHANGED <<argv, args, diag, force_series, requests, now_hour, nearest,
                   hour, res, listings, grid, ci, ei, written>>

---------------------------------------------------------------------------
(* fetch_listings(lineup_id, postal_code, country, days), lines 112-144    *)

\* a range that takes its stop value too
InRange_Inclusive(h, days) == h <= 24 * days

\* range(nearest, 24 * days, 3) has a next value
InRange(h, days) == h < 24 * days

\* lines 113-119, the clock reading one of Hours
FetchStart(Hours) ==
    /\ pc = "fetch_start"
    /\ \E h \in Hours :
          /\ now_hour' = h
          /\ nearest' = (h \div 3) * 3
          /\ hour' = (h \div 3) * 3
    /\ listings' = <<>>
    /\ pc' = "fetch_loop"
    /\ UNCHANGED <<argv, args, diag, force_series, requests, res, grid, tv,
                   added_channels, ci, ei, written>>

\* lines 127-134; time is the offset in hours from local midnight, for
\* ts = int((day + timedelta(hours=hour)).timestamp())
Params(h) ==
    [lineupId |-> args.lineup.value, timespan |-> "3", headendId |-> "lineupId",
     country |-> args.country.value, postalCode |-> args.postal.value,
     time |-> h]

\* What the upstream may answer when at most room more blocks fit the run
Responses(Blocks, room) ==
    { [status_code |-> 200, json |-> Val([channels |-> Val(p)])] :
         p \in SeqsUpTo(Blocks, room) }
    \cup { [status_code |-> 200, json |-> Val([channels |-> Missing])] }
    \cup { [status_code |-> c, json |-> Null] : c \in {404, 503} }

\* listings = data.get('channels', []) in place of listings.extend(...)
Extend_Assign(list, r) ==
    IF r.status_code = 200
    THEN Get(r.json.value.channels, Val(<<>>)).value
    ELSE list

\* lines 137-142
Extend(list, r) ==
    IF r.status_code = 200
    THEN list \o Get(r.json.value.channels, Val(<<>>)).value
    ELSE list

\* One pass of the loop body, lines 122-142
FetchWindow(Blocks) ==
    /\ pc = "fetch_loop"
    /\ InRange(hour, args.days.value)
    /\ requests' = Append(requests, Params(hour))
    /\ \E r \in Responses(Blocks, MaxBlocks - Len(listings)) :
          /\ res' = r
          /\ listings' = Extend(listings, r)
    /\ hour' = hour + 3
    /\ UNCHANGED <<pc, argv, args, diag, force_series, now_hour, nearest, grid,
                   tv, added_channels, ci, ei, written>>

\* line 144 and line 209: the range is exhausted, the list goes to main's
\* grid and the frame of fetch_listings is gone
FetchReturn ==
    /\ pc = "fetch_loop"
    /\ ~InRange(hour, args.days.value)
    /\ grid' = listings
    /\ now_hour' = 0 /\ nearest' = 0 /\ hour' = 0
    /\ res' = NoResponse
    /\ listings' = <<>>
    /\ ci' = 1
    /\ pc' = "channels"
    /\ UNCHANGED <<argv, args, diag, force_series, requests, tv, added_channels,
                   ei, written>>

---------------------------------------------------------------------------
(* main(), lines 212-226 *)

\* main() without the allow-list filter
Allowed_Everything(channel) == TRUE

Allowed(channel) == channel.callSign.value \in allowed_channels

RECURSIVE WithProgrammes(_, _, _, _)
\* tree with the programmes of events[k..] of a channel appended
WithProgrammes(tree, channel_id, events, k) ==
    IF k > Len(events) THEN tree
    ELSE WithProgrammes(add_program(events[k], channel_id, tree, 0).tv,
                        channel_id, events, k + 1)

\* a one-pass main(): each block's programmes right after its channel
ChannelsStep_OnePass ==
    /\ pc = "channels"
    /\ ci <= Len(grid)
    /\ LET r == IF grid[ci].callSign.value \in allowed_channels
                THEN add_channel(grid[ci], tv, added_channels)
                ELSE [tv |-> tv, added_channels |-> added_channels]
       IN /\ tv' = IF grid[ci].callSign.value \in allowed_channels
                   THEN WithProgrammes(r.tv, grid[ci].callSign.value,
                                       grid[ci].events.value, 1)
                   ELSE r.tv
          /\ added_channels' = r.added_channels
    /\ ci' = ci + 1
    /\ UNCHANGED <<pc, argv, args, diag, force_series, requests, now_hour,
                   nearest, hour, res, listings, grid, ei, written>>

\* lines 213-215, one block
ChannelsStep ==
    /\ pc = "channels"
    /\ ci <= Len(grid)
    /\ LET r == IF Allowed(grid[ci])
                THEN add_channel(grid[ci], tv, added_channels)
                ELSE [tv |-> tv, added_channels |-> added_channels]
       IN tv' = r.tv /\ added_channels' = r.added_channels
    /\ ci' = ci + 1
    /\ UNCHANGED <<pc, argv, args, diag, force_series, requests, now_hour,
                   nearest, hour, res, listings, grid, ei, written>>

\* line 216-219: the first loop is over, the second starts
ChannelsDone ==
    /\ pc = "channels"
    /\ ci > Len(grid)
    /\ ci' = 1 /\ ei' = 1
    /\ pc' = "programs"
    /\ UNCHANGED <<argv, args, diag, force_series, requests, now_hour, nearest,
                   hour, res, listings, grid, tv, added_channels, written>>

EventsOf(channel) == Get(channel.events, Val(<<>>)).value

\* lines 220-222, one event of an allow-listed block; an exception out of
\* add_program is caught nowhere and ends the process
ProgramsEvent ==
    /\ pc = "programs"
    /\ ci <= Len(grid)
    /\ Allowed(grid[ci])
    /\ ei <= Len(EventsOf(grid[ci]))
    /\ \E off \in HostOffsets :
          LET r == add_program(EventsOf(grid[ci])[ei], grid[ci].callSign.value, tv, off)
          IN /\ tv' = r.tv
             /\ IF r.raised
                THEN pc' = "aborted" /\ ei' = ei
                ELSE pc' = pc /\ ei' = ei + 1
    /\ UNCHANGED <<argv, args, diag, force_series, requests, now_hour, nearest,
                   hour, res, listings, grid, added_channels, ci, written>>

\* lines 219-221: next block, when this one is filtered out or exhausted
ProgramsNext ==
    /\ pc = "programs"
    /\ ci <= Len(grid)
    /\ ~Allowed(grid[ci]) \/ ei > Len(EventsOf(grid[ci]))
    /\ ci' = ci + 1 /\ ei' = 1
    /\ UNCHANGED <<pc, argv, args, diag, force_series, requests, now_hour,
                   nearest, hour, res, listings, grid, tv, added_channels, written>>

\* lines 225-226
WriteOutput ==
    /\ pc = "programs"
    /\ ci > Len(grid)
    /\ written' = Val(tv)
    /\ pc' = "done"
    /\ UNCHANGED <<argv, args, diag, force_series, requests, now_hour, nearest,
                   hour, res, listings, grid, tv, added_channels, ci, ei>>

---------------------------------------------------------------------------
(* Specifications *)

\* The whole program, started with at most MaxWindows windows left in the day
MainHours == { h \in 0..23 : h >= 24 - 3 * MaxWindows }

Next ==
    \/ ParseArgs
    \/ CheckArgs
    \/ MainStart
    \/ FetchStart(MainHours)
    \/ FetchWindow(MainBlocks)
    \/ FetchReturn
    \/ ChannelsStep
    \/ ChannelsDone
    \/ ProgramsEvent
    \/ ProgramsNext
    \/ WriteOutput

Spec == Init /\ [][Next]_vars

\* fetch_listings alone, at every hour of the day and every day span up to
\* MaxDays (and a negative one).  The thread is sequential: it always takes
\* its next step.
FetchArgs ==
    { [lineup |-> Val("CAN-lineupId-DEFAULT"), postal |-> Val("M5V3L9"),
       country |-> Val("CAN"), days |-> Val(d), output |-> Val("gracenote.xml")] :
        d \in (0 - 1)..MaxDays }

InitFetch ==
    /\ pc = "fetch_start"
    /\ argv = Null
    /\ args \in FetchArgs
    /\ force_series = ConfiguredForceSeries
    /\ Fresh

NextFetch ==
    \/ FetchStart(0..23)
    \/ FetchWindow(FetchBlocks)
    \/ FetchReturn

SpecFetch == InitFetch /\ [][NextFetch]_vars /\ WF_vars(NextFetch)

\* The two loops of main() alone, on a fetched grid, under any of the
\* force-series lists
InitMap ==
    /\ pc = "channels"
    /\ argv = Null
    /\ args = Null
    /\ force_series \in PatternLists
    /\ diag = <<>>
    /\ requests = <<>>
    /\ now_hour = 0 /\ nearest = 0 /\ hour = 0
    /\ res = NoResponse
    /\ listings = <<>>
    /\ grid \in MapGrids
    /\ tv = <<>>
    /\ added_channels = {}
    /\ ci = 1 /\ ei = 1
    /\ written = Null

NextMap ==
    \/ ChannelsStep
    \/ ChannelsDone
    \/ ProgramsEvent
    \/ ProgramsNext
    \/ WriteOutput

SpecMap == InitMap /\ [][NextMap]_vars

---------------------------------------------------------------------------
(* Properties *)

\* the blocks of the grid the first loop has passed (all of them later on)
Passed ==
    IF pc = "channels" THEN ci - 1
    ELSE IF pc \in {"programs", "done", "aborted"} THEN Len(grid)
    ELSE 0

\* indices of the allow-listed blocks among the first n of the grid
AllowListed(n) == { i \in 1..n : grid[i].callSign.value \in allowed_channels }

\* i is the first allow-listed block that carries its channel identifier
FirstCarrier(i) ==
    /\ i \in AllowListed(Len(grid))
    /\ \A j \in AllowListed(i - 1) : grid[j].channelId.value # grid[i].channelId.value

\* C1: in the tree main builds, every channel element precedes every
\* programme element, at every point of the run.
C1_ChannelsPrecedeProgrammes ==
    \A i \in 1..Len(tv) : \A j \in 1..Len(tv) :
        (tv[i].tag = "programme" /\ tv[j].tag = "channel") => j < i

C1_Witness ==
    /\ pc = "done"
    /\ Len(Channels(tv)) >= 2
    /\ Len(Programmes(tv)) >= 2

\* C2: every channel identifier carried by an allow-listed block the first
\* loop has passed is in the seen-set and has exactly one channel element,
\* the one of the first block that carries it, whatever the number of blocks
\* and windows; and add_channel on a block whose identifier is in the
\* seen-set returns the tree and the seen-set it was given.
C2_OneChannelPerIdentifier ==
    /\ added_channels = { grid[i].channelId.value : i \in AllowListed(Passed) }
    /\ Len(Channels(tv)) = Cardinality(added_channels)
    /\ LET first == SelectSeq([i \in 1..Passed |-> i], FirstCarrier)
       IN /\ Len(first) = Len(Channels(tv))
          /\ \A k \in 1..Len(first) :
                Channels(tv)[k].attrib.id = grid[first[k]].callSign.value
    /\ \A i \in 1..Len(grid) :
          grid[i].channelId.value \in added_channels
          => add_channel(grid[i], tv, added_channels)
             = [tv |-> tv, added_channels |-> added_channels]

C2_Witness ==
    /\ pc = "done"
    /\ Len(grid) = 2
    /\ Len(requests) = 2
    /\ AllowListed(2) = {1, 2}
    /\ grid[1].channelId = grid[2].channelId
    /\ Len(Channels(tv)) = 1

\* C3: once main is done, the channel attribute of every programme element
\* is the id attribute of exactly one channel element.
C3_ProgrammeChannelUnique ==
    pc = "done" =>
        \A p \in 1..Len(Programmes(tv)) :
            Cardinality({ c \in 1..Len(Channels(tv)) :
                            Channels(tv)[c].attrib.id
                            = Programmes(tv)[p].attrib.channel }) = 1

\* C4: a programme element has at most one episode-num child, for any
\* program record and any force-series list.
C4_AtMostOneEpisodeNum ==
    \A p \in 1..Len(Programmes(tv)) : Len(EpisodeNums(Programmes(tv)[p])) <= 1

\* the event the p-th programme element of the tree was made from, in the
\* one-block grids of the mapping specification
EventOf(p) == grid[1].events.value[p]

\* C5: the episode-num of a programme follows the precedence: season and
\* episode both present and non-null give "{season}.{episode}.0"; otherwise
\* a title matching a force-series pattern gives the xmltv_ns_doy value of
\* the start time; otherwise there is no episode-num.
C5_EpisodePrecedence ==
    \A p \in 1..Len(Programmes(tv)) :
        LET program == EventOf(p).program.value
            title == IF program.title.state = "missing" THEN NoTitle
                     ELSE program.title.value
            nums == EpisodeNums(Programmes(tv)[p])
        IN IF program.season.state = "value" /\ program.episode.state = "value"
           THEN /\ Len(nums) = 1
                /\ nums[1].text = Val(<<program.season.value, program.episode.value, 0>>)
           ELSE IF \E k \in 1..Len(force_series) : fnmatch(title, force_series[k])
           THEN /\ nums # <<>>
                /\ \A n \in 1..Len(nums) :
                      \E off \in HostOffsets :
                          LET g == generate_random_episode_num(
                                       EventOf(p).startTime.value, "xmltv_ns_doy", off)
                          IN ~g.raised /\ nums[n].text = g.value
           ELSE nums = <<>>

\* C8: a timestamp that does not parse never aborts the run; the start or
\* stop attribute made from it is "Unknown".
C8_MalformedTimestampTolerated ==
    /\ pc # "aborted"
    /\ \A p \in 1..Len(Programmes(tv)) :
          /\ ~strptime(EventOf(p).startTime.value).ok
             => Programmes(tv)[p].attrib.start = Unknown
          /\ ~strptime(EventOf(p).endTime.value).ok
             => Programmes(tv)[p].attrib.stop = Unknown

\* C6: passing a block whose call sign is not in the allow-list, in either
\* loop of main, changes neither the tree nor the seen-set.
C6_FilteredBlockContributesNothing ==
    [][ ( /\ pc \in {"channels", "programs"}
          /\ ci <= Len(grid)
          /\ grid[ci].callSign.value \notin allowed_channels )
        => (tv' = tv /\ added_channels' = added_channels /\ ci' = ci + 1) ]_vars

C6_Witness ==
    /\ pc = "done"
    /\ \E i \in 1..Len(grid) : \E j \in 1..Len(grid) :
          /\ grid[i].callSign.value \notin allowed_channels
          /\ grid[i].events.value # <<>>
          /\ grid[j].callSign.value \in allowed_channels
          /\ grid[i].channelId = grid[j].channelId
    /\ Len(Programmes(tv)) = 1

\* C7: each pass of the fetch loop issues one request, for the current
\* window, and moves to the next window whatever the status; the list grows
\* by the channels array of a 200 response and is left alone otherwise; the
\* loop is left only when the range is exhausted, and the list is returned.
C7_NonFatalFetch ==
    [][ pc = "fetch_loop" =>
          IF hour < 24 * args.days.value
          THEN /\ pc' = "fetch_loop"
               /\ hour' = hour + 3
               /\ Len(requests') = Len(requests) + 1
               /\ SubSeq(requests', 1, Len(requests)) = requests
               /\ requests'[Len(requests')].time = hour
               /\ listings' =
                    IF res'.status_code # 200 THEN listings
                    ELSE IF res'.json.value.channels.state = "missing" THEN listings
                    ELSE listings \o res'.json.value.channels.value
          ELSE pc' = "channels" /\ grid' = listings /\ requests' = requests ]_vars

C7_Witness ==
    /\ pc = "fetch_loop"
    /\ hour < 24 * args.days.value
    /\ Len(requests) >= 2
    /\ res.status_code = 404
    /\ listings # <<>>

\* the hour offsets of the requests issued so far
Offsets == [k \in 1..Len(requests) |-> requests[k].time]

\* b, b+3, b+6, ... strictly below 24*d, for b the 3-hour boundary at or
\* before h
ExpectedOffsets(h, d) ==
    LET b == 3 * (h \div 3)
        n == IF b >= 24 * d THEN 0 ELSE (24 * d - b) \div 3
    IN [k \in 1..n |-> b + 3 * (k - 1)]

\* C10: the fetch loop ends, and when it ends the requests issued are those
\* for the offsets b, b+3, ... below 24*days in increasing order, one each
\* (none when b >= 24*days, and then the list is empty); before that they
\* are the first of these.
C10_FetchLoopOffsets ==
    /\ <>(pc = "channels")
    /\ [](pc = "fetch_loop" =>
            LET expected == ExpectedOffsets(now_hour, args.days.value)
            IN /\ Len(Offsets) <= Len(expected)
               /\ Offsets = SubSeq(expected, 1, Len(Offsets))
               /\ hour = 3 * (now_hour \div 3) + 3 * Len(Offsets)
               /\ expected = <<>> => listings = <<>>)
    /\ [][ (pc = "fetch_loop" /\ pc' = "channels")
           => Offsets = ExpectedOffsets(now_hour, args.days.value) ]_vars

C10_Witness ==
    /\ pc = "fetch_loop"
    /\ now_hour % 3 = 2
    /\ ~(hour < 24 * args.days.value)
    /\ Len(requests) >= 2
    /\ Offsets = ExpectedOffsets(now_hour, args.days.value)

\* C9: a command line without the postal code, the country or the lineup
\* ends in the diagnostic and exit status 1, and no request is ever issued.
C9_MissingArgumentExits ==
    (argv.lineup.state = "missing" \/ argv.postal.state = "missing"
       \/ argv.country.state = "missing")
    => /\ requests = <<>>
       /\ \/ pc \in {"parse", "check"}
          \/ pc = "exit1" /\ diag # <<>>

===========================================================================
